---- MODULE Spec2Model ----
(***************************************************************************)
(* Model of the quiz chain resolver of tds-llm-quiz: the POST /quiz        *)
(* endpoint (src/main.py receive_quiz), the resolution loop                *)
(* (src/main.py solve_quiz_chain), the browser handling of QuizSolver      *)
(* (src/quiz_solver.py) and the answer extraction of LLMHelper             *)
(* (src/prompt_helper.py).                                                 *)
(*                                                                         *)
(* Representation.  A Python string is a sequence of tokens: a URL is a    *)
(* sequence such as <<"http://x", "/q1">>, a text is a sequence of words,  *)
(* blanks " " and line breaks "\n".  The empty string is << >> and the     *)
(* Python value None is NoneVal.  The clock counts seconds.  Every         *)
(* external call is one step that also advances the clock by the call's    *)
(* duration.                                                               *)
(*                                                                         *)
(* Spec is the endpoint with the chain it starts; FairSpec adds that the   *)
(* chain's calls return; ExtractSpec is _extract_answer applied on its own *)
(* to any text of up to MaxLen tokens.                                     *)
(***************************************************************************)
EXTENDS Integers, Sequences, FiniteSets, TLC

VARIABLES
    now,              \* time.time(), in seconds
    pc,               \* position of the request / background task
    api_key,          \* whether OPENAI_API_KEY is set in the environment
    full_response,    \* backend output handed to _extract_answer
    file_data,        \* a downloaded item on its way into the prompt
    content_preview,  \* what the prompt holds of that item
    anchors,          \* the <a> elements of a page being parsed
    question_text,    \* the visible text of a page being parsed
    chains,           \* the chains of two requests served concurrently
    solvers,          \* the QuizSolver instances of these chains
    request,          \* body of the request received by POST /quiz
    http_status,      \* status code answered by POST /quiz (0: none yet)
    email, secret, quiz_url, start_time,   \* arguments of solve_quiz_chain
    playwright, browser, context,          \* fields of QuizSolver
    page,             \* the page handle of visit_and_parse_quiz
    current_url, quiz_count, time_remaining,
    quiz_data,        \* result of visit_and_parse_quiz
    downloaded_data,  \* keys of downloaded_data
    answer,           \* local variable answer
    result,           \* parsed JSON body of the checker's response
    status,           \* outcome of the chain in the spec's terms
    error,            \* the fatal error that ended the chain, if any
    fetches,          \* calls of visit_and_parse_quiz so far
    iter_downloads,   \* calls of download_file in this iteration
    iter_llm_calls,   \* calls of solve_quiz in this iteration
    posts,            \* calls of requests.post so far
    payload,          \* JSON body of the latest POST
    post_url,         \* URL of the latest POST
    close_calls       \* calls of close_browser so far

vars == <<now, pc, api_key, full_response, file_data, content_preview,
          anchors, question_text, chains, solvers, request, http_status, email,
          secret,
          quiz_url, start_time,
          playwright, browser, context, page, current_url, quiz_count,
          time_remaining, quiz_data, downloaded_data, answer, result, status,
          error, fetches, iter_downloads, iter_llm_calls, posts,
          payload, post_url, close_calls>>

----------------------------------------------------------------------------
(* Bounds of the model *)

\* The budget configured through the environment variable QUIZ_TIMEOUT.
QUIZ_TIMEOUT == 34
\* Duration, in seconds, of a slow external call (a fast one takes none).
MaxDur == 12
\* Clock reading when the server starts.
StartClock == 1
\* Longest text, in tokens, handed to the answer extraction on its own.
MaxLen == 4
\* Largest downloaded item, in characters.
MaxChars == 5002
\* Most <a> elements of a page parsed on its own.
MaxAnchors == 2
\* Most words and URLs in the text of a page parsed on its own.
MaxItems == 2
\* Iterations for which each of two concurrent chains is given responses.
MaxIter == 2

(* Program constants *)

\* main.py:287  `time_remaining > 30`
SAFETY_MARGIN == 30
\* quiz_solver.py:75  page.wait_for_timeout(2000)
FETCH_WAIT == 2
\* main.py:199-200  `len(file_data) > 5000`, `file_data[:5000]`
COLLECT_CAP == 5000
\* main.py:200  len("\n[...content truncated...]")
MARKER_LEN == 26
\* prompt_helper.py:47  `str(data_content)[:3000]`
PROMPT_CAP == 3000

\* Cap on the iterations of one chain.  Every iteration that is followed by
\* another one waits FETCH_WAIT seconds, so a chain has no more than
\* QUIZ_TIMEOUT \div FETCH_WAIT + 1 iterations and the cap is never reached
\* (see IterationsBounded).
MaxSteps == QUIZ_TIMEOUT \div FETCH_WAIT + 2

----------------------------------------------------------------------------
(* Python values *)

NoneVal == <<"<None>">>
EmptyStr == << >>
\* The value of a key that a JSON object does not have
MissingVal == <<"<missing>">>

\* dict.get(key) applied to the value of the key
dict_get(v) == IF v = MissingVal THEN NoneVal ELSE v

\* Python truthiness of None / str
Truthy(v) == v /= NoneVal /\ v /= EmptyStr

\* `needle in s` for a one-token needle
Contains(s, needle) == \E i \in 1..Len(s) : s[i] = needle

\* A URL with a scheme and a host
IsAbsolute(u) == Len(u) > 0 /\ u[1] \in {"http://x", "https://x", "http://y"}

Q1 == <<"http://x", "/q1">>
Q2 == <<"http://x", "/q2">>
P2 == <<"http://x", "/project2">>
REL == <<"/step2">>
StartUrls == {Q1, P2}
\* What the "url" field of a checker response can hold (NoneVal: null)
VerdictUrls == {MissingVal, NoneVal, EmptyStr, Q2, REL}

\* main.py:24-25
REGISTERED_SECRET == "s3cret"
MY_EMAIL == "me@x"

----------------------------------------------------------------------------
(* prompt_helper.py: answer extraction, on token sequences *)

IsWs(t) == t \in {" ", "\n", "\t"}

RECURSIVE LStrip(_)
LStrip(s) == IF s = << >> THEN s
             ELSE IF IsWs(Head(s)) THEN LStrip(Tail(s)) ELSE s

RECURSIVE RStrip(_)
RStrip(s) == IF s = << >> THEN s
             ELSE IF IsWs(s[Len(s)]) THEN RStrip(SubSeq(s, 1, Len(s) - 1)) ELSE s

\* str.strip()
Strip(s) == RStrip(LStrip(s))

\* str.split(sep): the pieces between the occurrences of sep
RECURSIVE Split(_, _)
Split(s, sep) ==
    IF ~Contains(s, sep) THEN <<s>>
    ELSE LET i == CHOOSE k \in 1..Len(s) :
                      s[k] = sep /\ \A j \in 1..(k - 1) : s[j] /= sep
         IN  <<SubSeq(s, 1, i - 1)>> \o Split(SubSeq(s, i + 1, Len(s)), sep)

\* Mutant of NonBlank: blank lines are kept
NonBlank_Any(line) == TRUE

\* Line 130: `if line.strip()`
NonBlank(line) == Strip(line) /= << >>

\* LLMHelper._extract_answer
extract_answer(response_text) ==
    IF Contains(response_text, "ANSWER:")
    THEN LET lines == Split(response_text, "ANSWER:")
             tail == Strip(lines[Len(lines)])
         IN  Strip(Split(tail, "\n")[1])
    ELSE LET lines == SelectSeq(Split(response_text, "\n"), NonBlank)
         IN  IF lines /= << >> THEN Strip(lines[Len(lines)]) ELSE EmptyStr

\* LLMHelper.solve_quiz, from the backend's message content to the return value
solve_quiz(content) == extract_answer(Strip(content))

\* Message contents the reasoning backend can return
BackendOutputs ==
    { << >>,
      <<"ANSWER:">>,
      <<"so", "\n", "ANSWER:", " ", "42", "\n">> }

----------------------------------------------------------------------------
(* Inputs: requests, pages, checker responses, call durations *)

Requests == [malformed : BOOLEAN,
             email : {MY_EMAIL, "other@x"},
             secret : {REGISTERED_SECRET, "wrong"},
             url : StartUrls]

DataLink == [text |-> <<"data">>, url |-> <<"http://x", "/data", ".CSV">>]
HtmlLink == [text |-> <<"page">>, url |-> <<"http://x", "/page", ".html">>]
PdfLink == [text |-> <<"report">>, url |-> <<"http://x", "/report", ".pdf">>]
\* An HTML page whose query string names a data file
QueryLink == [text |-> <<"view">>, url |-> <<"http://x", "/view", ".html", "?f=a", ".csv">>]
SubmitUrl == <<"http://x", "/submit">>
SubmitUrl2 == <<"http://x", "/submit", "/2">>

\* Results of visit_and_parse_quiz
Pages == { [question |-> <<"q">>, links |-> <<DataLink, PdfLink, HtmlLink>>, submit_url |-> SubmitUrl],
           [question |-> <<"q">>, links |-> << >>, submit_url |-> SubmitUrl2],
           [question |-> <<"q">>, links |-> <<HtmlLink, QueryLink>>, submit_url |-> NoneVal] }

\* response.json(): a JSON object with optional "correct" and "url", or
\* some other JSON value (isdict = FALSE)
Verdicts == [isdict : {TRUE}, correct : {"true", "false"}, url : VerdictUrls]
            \cup [isdict : {TRUE}, correct : {"missing"}, url : {MissingVal, NoneVal, Q2}]
            \cup {[isdict |-> FALSE, correct |-> "missing", url |-> NoneVal]}

\* An external call is fast or slow
Durs == {0, MaxDur}
\* A successful fetch includes page.wait_for_timeout(2000)
FetchDurs == {FETCH_WAIT, FETCH_WAIT + MaxDur}

NoPage == [question |-> << >>, links |-> << >>, submit_url |-> NoneVal]
NoResult == [isdict |-> FALSE, correct |-> "missing", url |-> NoneVal]
NoPayload == [email |-> "", secret |-> "", url |-> NoneVal, answer |-> NoneVal]

\* str.lower() of a token
Lower(t) == CASE t = ".CSV" -> ".csv"
              [] t = ".PDF" -> ".pdf"
              [] OTHER -> t

\* main.py:188  the extensions of data files
DataExtensions == {".pdf", ".csv", ".json", ".xlsx"}

\* main.py:188  any(ext in link_url.lower() for ext in [...])
IsDataLink(u) == \E i \in 1..Len(u) : Lower(u[i]) \in DataExtensions

NoData == [size |-> 0, isstr |-> TRUE, body |-> 0, marker |-> 0]
NoRequest == [malformed |-> FALSE, email |-> "", secret |-> "", url |-> NoneVal]

\* The variables of the function-by-function specifications, unused
NoStandAloneCall ==
    /\ file_data = NoData /\ content_preview = NoData
    /\ anchors = << >> /\ question_text = << >>
    /\ chains = << >> /\ solvers = << >>

\* The variables of the endpoint and of the chain before any request
ChainIdle ==
    /\ http_status = 0
    /\ email = "" /\ secret = "" /\ quiz_url = NoneVal /\ start_time = 0
    /\ playwright = "none" /\ browser = "none" /\ context = "none"
    /\ page = "none"
    /\ current_url = NoneVal /\ quiz_count = 0 /\ time_remaining = 0
    /\ quiz_data = NoPage /\ downloaded_data = {} /\ answer = NoneVal
    /\ result = NoResult
    /\ status = "NONE" /\ error = "none"
    /\ fetches = 0 /\ iter_downloads = 0 /\ iter_llm_calls = 0 /\ posts = 0
    /\ payload = NoPayload /\ post_url = NoneVal
    /\ close_calls = 0

----------------------------------------------------------------------------
(* Initial state: the server is up, no request has arrived *)

Init ==
    /\ now = StartClock
    /\ pc = "idle"
    /\ api_key \in BOOLEAN
    /\ full_response = EmptyStr
    /\ NoStandAloneCall
    /\ request = NoRequest
    /\ http_status = 0
    /\ email = "" /\ secret = "" /\ quiz_url = NoneVal /\ start_time = 0
    /\ playwright = "none" /\ browser = "none" /\ context = "none"
    /\ page = "none"
    /\ current_url = NoneVal /\ quiz_count = 0 /\ time_remaining = 0
    /\ quiz_data = NoPage /\ downloaded_data = {} /\ answer = NoneVal
    /\ result = NoResult
    /\ status = "NONE" /\ error = "none"
    /\ fetches = 0 /\ iter_downloads = 0 /\ iter_llm_calls = 0 /\ posts = 0
    /\ payload = NoPayload /\ post_url = NoneVal
    /\ close_calls = 0

calls == <<api_key, full_response, file_data, content_preview, anchors,
           question_text, chains, solvers>>
env == <<calls, request>>
solver == <<playwright, browser, context, page>>
locals == <<quiz_data, downloaded_data, answer, result>>
args == <<email, secret, quiz_url, start_time>>
sent == <<posts, payload, post_url>>

----------------------------------------------------------------------------
(* main.py: POST /quiz *)

\* Mutant of Forbidden: the email is not compared
Forbidden_SecretOnly(req) == req.secret /= REGISTERED_SECRET

\* Lines 105-112: the secret or the email is not the configured one
Forbidden(req) == req.secret /= REGISTERED_SECRET \/ req.email /= MY_EMAIL

\* Lines 57-66 (a body that is no QuizRequest), lines 80-129
receive_quiz ==
    /\ pc = "idle"
    /\ \E req \in Requests :
         /\ request' = req
         /\ IF req.malformed
            THEN /\ http_status' = 400
                 /\ pc' = "rejected"
                 /\ UNCHANGED args
            ELSE IF Forbidden(req)
            THEN /\ http_status' = 403
                 /\ pc' = "rejected"
                 /\ UNCHANGED args
            ELSE /\ http_status' = 200
                 /\ pc' = "start"
                 /\ email' = req.email /\ secret' = req.secret
                 /\ quiz_url' = req.url /\ start_time' = now
    /\ UNCHANGED <<now, calls, solver, current_url, quiz_count, time_remaining,
                   locals, status, error, fetches, iter_downloads,
                   iter_llm_calls, sent, close_calls>>

----------------------------------------------------------------------------
(* main.py: solve_quiz_chain *)

\* Lines 149-152.  LLMHelper() raises ValueError without OPENAI_API_KEY,
\* outside the try block.
Construct ==
    /\ pc = "start"
    /\ \E d \in Durs : now' = now + d
    /\ IF api_key
       THEN /\ pc' = "loop"
            /\ current_url' = quiz_url
            /\ quiz_count' = 0
            /\ status' = "RUNNING"
       ELSE /\ pc' = "crashed"
            /\ UNCHANGED <<current_url, quiz_count, status>>
    /\ UNCHANGED <<env, http_status, args, solver, time_remaining, locals,
                   error, fetches, iter_downloads, iter_llm_calls, sent,
                   close_calls>>

\* Mutants of LoopCond: no deadline in the condition; a deadline that is
\* still open at the budget itself; a deadline brought forward by the margin
LoopCond_NoDeadline(url, t, st) == Truthy(url)
LoopCond_Inclusive(url, t, st) == Truthy(url) /\ (t - st) <= QUIZ_TIMEOUT
LoopCond_Early(url, t, st) == Truthy(url) /\ (t - st) < QUIZ_TIMEOUT - SAFETY_MARGIN
\* Another mutant of LoopCond: the deadline is put off by the wait of a fetch
LoopCond_Grace(url, t, st) == Truthy(url) /\ (t - st) < QUIZ_TIMEOUT + FETCH_WAIT

\* Line 156: the condition of the while loop
LoopCond(url, t, st) == Truthy(url) /\ (t - st) < QUIZ_TIMEOUT

\* Lines 156-159: the loop is entered.  The latest response is not read
\* again before it is reassigned (line 259); the model forgets it here.
LoopEnter ==
    /\ pc = "loop"
    /\ LoopCond(current_url, now, start_time)
    /\ quiz_count < MaxSteps
    /\ quiz_count' = quiz_count + 1
    /\ time_remaining' = QUIZ_TIMEOUT - (now - start_time)
    /\ iter_downloads' = 0 /\ iter_llm_calls' = 0
    /\ result' = NoResult
    /\ pc' = "fetch"
    /\ UNCHANGED <<now, env, http_status, args, solver, current_url,
                   quiz_data, downloaded_data, answer,
                   status, error, fetches, sent, close_calls>>

\* Lines 156, 296-301: the loop condition fails
LoopExit ==
    /\ pc = "loop"
    /\ ~LoopCond(current_url, now, start_time)
    /\ status' = IF Truthy(current_url) THEN "TIMED_OUT" ELSE status
    /\ result' = NoResult
    /\ pc' = "cleanup"
    /\ UNCHANGED <<now, env, http_status, args, solver, current_url,
                   quiz_count, time_remaining, quiz_data, downloaded_data,
                   answer, error, fetches,
                   iter_downloads, iter_llm_calls, sent, close_calls>>

\* Mutant of BreakTarget: `continue` in place of `break`
BreakTarget_Continue == "loop"

\* Where a `break` of the loop body leads (lines 180, 224, 238, 244, 265)
BreakTarget == "cleanup"

\* What the locals of the loop body hold before they are assigned
ForgetLocals ==
    /\ quiz_data' = NoPage /\ downloaded_data' = {}
    /\ answer' = NoneVal /\ result' = NoResult

\* An except handler of the loop body: report, then break.  No local of
\* the loop body is read after the loop; the model forgets them here.
Break(err) ==
    /\ pc' = BreakTarget
    /\ status' = "FAILED"
    /\ error' = err
    /\ ForgetLocals

\* quiz_solver.py:19-38  init_browser without a failure
InitBrowserOk ==
    IF browser = "none"
    THEN playwright' = "open" /\ browser' = "open" /\ context' = "open"
    ELSE UNCHANGED <<playwright, browser, context>>

\* Lines 169-176, quiz_solver.py:53-114: the page is opened (line 68),
\* fetched, parsed and closed (line 107)
VisitOk ==
    /\ pc = "fetch"
    /\ InitBrowserOk
    /\ page' = "closed"
    /\ \E parsed \in Pages, d \in FetchDurs :
         /\ quiz_data' = parsed
         /\ now' = now + d
    /\ fetches' = fetches + 1
    /\ pc' = "collect"
    /\ UNCHANGED <<env, http_status, args, current_url, quiz_count,
                   time_remaining, downloaded_data, answer, result, status,
                   error, iter_downloads, iter_llm_calls, sent, close_calls>>

\* Mutant of VisitFail: the handler closes the browser itself, before the
\* finally clause does
VisitFail_AlsoCloses ==
    /\ pc = "fetch"
    /\ InitBrowserOk
    /\ UNCHANGED page
    /\ \E d \in Durs : now' = now + d
    /\ fetches' = fetches + 1
    /\ close_calls' = close_calls + 1
    /\ Break("fetch")
    /\ UNCHANGED <<env, http_status, args, current_url, quiz_count,
                   time_remaining, iter_downloads, iter_llm_calls,
                   sent>>

\* Lines 178-180: visit_and_parse_quiz raises.  The exception comes from
\* init_browser (quiz_solver.py:24-38, after 0, 1 or 2 of its three steps)
\* or from the page (quiz_solver.py:68-119): new_page raises and there is
\* no page, or a later call raises and the handler's page.close() (line
\* 118) closes the page or raises itself and leaves it open.
VisitFail ==
    /\ pc = "fetch"
    /\ \/ /\ browser = "none"
          /\ \E done \in 0..2 :
               /\ playwright' = IF done >= 1 THEN "open" ELSE playwright
               /\ browser' = IF done >= 2 THEN "open" ELSE browser
               /\ UNCHANGED <<context, page>>
       \/ /\ InitBrowserOk
          /\ page' \in {page, "closed", "open"}
    /\ \E d \in Durs : now' = now + d
    /\ fetches' = fetches + 1
    /\ Break("fetch")
    /\ UNCHANGED <<env, http_status, args, current_url, quiz_count,
                   time_remaining, iter_downloads, iter_llm_calls,
                   sent, close_calls>>

\* Mutant of Collect: the first download that fails ends the chain
Collect_FailFast ==
    /\ pc = "collect"
    /\ LET links == quiz_data.links
           data == {i \in 1..Len(links) : IsDataLink(links[i].url)}
       IN  \E ok \in SUBSET data :
             IF ok = data
             THEN /\ downloaded_data' = {links[i].text : i \in ok}
                  /\ iter_downloads' = Cardinality(data)
                  /\ pc' = "llm1"
                  /\ UNCHANGED <<quiz_data, answer, result, status, error>>
             ELSE /\ iter_downloads' = Cardinality(ok) + 1
                  /\ Break("fetch")
    /\ \E d \in Durs : now' = now + d
    /\ UNCHANGED <<env, http_status, args, solver, current_url, quiz_count,
                   time_remaining, fetches, iter_llm_calls, sent, close_calls>>

\* Lines 184-205: every data link is downloaded (download_file returns
\* None when the download fails, extract_text_from_pdf returns "" when the
\* decoding fails); a link whose download or decoding fails or yields
\* nothing is left out of downloaded_data and the loop goes on with the
\* next link.  `ok` are the links that yield content.
Collect ==
    /\ pc = "collect"
    /\ LET links == quiz_data.links
           data == {i \in 1..Len(links) : IsDataLink(links[i].url)}
       IN  /\ \E ok \in SUBSET data :
                downloaded_data' = {links[i].text : i \in ok}
           /\ iter_downloads' = Cardinality(data)
    /\ \E d \in Durs : now' = now + d
    /\ pc' = "llm1"
    /\ UNCHANGED <<env, http_status, args, solver, current_url, quiz_count,
                   time_remaining, quiz_data, answer, result, status, error,
                   fetches, iter_llm_calls, sent, close_calls>>

\* Line 211: the entry page of /project2
IsEntryStep == Contains(current_url, "/project2") /\ quiz_count = 1

\* A call of llm_helper.solve_quiz that returns
SolveOk(next) ==
    /\ \E out \in BackendOutputs : answer' = solve_quiz(out)
    /\ \E d \in Durs : now' = now + d
    /\ iter_llm_calls' = iter_llm_calls + 1
    /\ pc' = next
    /\ UNCHANGED <<env, http_status, args, solver, current_url, quiz_count,
                   time_remaining, quiz_data, downloaded_data, result, status,
                   error, fetches, iter_downloads, sent, close_calls>>

\* A call of llm_helper.solve_quiz that raises: report, then break
SolveFail ==
    /\ \E d \in Durs : now' = now + d
    /\ iter_llm_calls' = iter_llm_calls + 1
    /\ Break("llm")
    /\ UNCHANGED <<env, http_status, args, solver, current_url, quiz_count,
                   time_remaining, fetches, iter_downloads, sent,
                   close_calls>>

\* Lines 211-213
FixedAnswer ==
    /\ pc = "llm1"
    /\ IsEntryStep
    /\ answer' = <<"start">>
    /\ pc' = "llm2"
    /\ UNCHANGED <<now, env, http_status, args, solver, current_url,
                   quiz_count, time_remaining, quiz_data, downloaded_data,
                   result, status, error, fetches, iter_downloads,
                   iter_llm_calls, sent, close_calls>>

\* Lines 214-221
FirstSolveOk == pc = "llm1" /\ ~IsEntryStep /\ SolveOk("llm2")

\* Lines 222-224
FirstSolveFail == pc = "llm1" /\ ~IsEntryStep /\ SolveFail

\* Lines 226-234: the second "STEP 3" block, run in every iteration
SecondSolveOk == pc = "llm2" /\ SolveOk("submit")

\* Lines 236-238
SecondSolveFail == pc = "llm2" /\ SolveFail

\* Mutant of NoSubmitUrl: the POST is made although the page has no submit URL
NoSubmitUrl_PostsAnyway ==
    /\ pc = "submit"
    /\ ~Truthy(quiz_data.submit_url)
    /\ posts' = posts + 1
    /\ Break("nosubmit")
    /\ UNCHANGED <<now, env, http_status, args, solver, current_url,
                   quiz_count, time_remaining, fetches, iter_downloads,
                   iter_llm_calls, payload, post_url, close_calls>>

\* Lines 242-244
NoSubmitUrl ==
    /\ pc = "submit"
    /\ ~Truthy(quiz_data.submit_url)
    /\ Break("nosubmit")
    /\ UNCHANGED <<now, env, http_status, args, solver, current_url,
                   quiz_count, time_remaining, fetches, iter_downloads,
                   iter_llm_calls, sent, close_calls>>

\* Mutant of SubmissionPayload: the URL the chain started with is reported
SubmissionPayload_StartUrl ==
    [email |-> email, secret |-> secret, url |-> quiz_url, answer |-> answer]

\* Lines 247-252
SubmissionPayload ==
    [email |-> email, secret |-> secret, url |-> current_url, answer |-> answer]

\* Lines 246-261: the POST returns a 2xx response with a JSON body.  The
\* page, the downloaded data and the answer are not read again before they
\* are reassigned (lines 170, 184, 216, 229); the model forgets them here.
PostOk ==
    /\ pc = "submit"
    /\ Truthy(quiz_data.submit_url)
    /\ posts' = posts + 1
    /\ payload' = SubmissionPayload
    /\ post_url' = quiz_data.submit_url
    /\ \E v \in Verdicts : result' = v
    /\ \E d \in Durs : now' = now + d
    /\ quiz_data' = NoPage /\ downloaded_data' = {} /\ answer' = NoneVal
    /\ pc' = "transition"
    /\ UNCHANGED <<env, http_status, args, solver, current_url, quiz_count,
                   time_remaining, status, error, fetches, iter_downloads,
                   iter_llm_calls, close_calls>>

\* Mutant of PostFail: a failed POST is repeated once before giving up
PostFail_Retry ==
    /\ pc = "submit"
    /\ Truthy(quiz_data.submit_url)
    /\ posts' = posts + 2
    /\ payload' = SubmissionPayload
    /\ post_url' = quiz_data.submit_url
    /\ \E d \in Durs : now' = now + d
    /\ Break("post")
    /\ UNCHANGED <<env, http_status, args, solver, current_url, quiz_count,
                   time_remaining, fetches, iter_downloads,
                   iter_llm_calls, close_calls>>

\* Lines 263-265: requests.post, raise_for_status or response.json raises
PostFail ==
    /\ pc = "submit"
    /\ Truthy(quiz_data.submit_url)
    /\ posts' = posts + 1
    /\ payload' = SubmissionPayload
    /\ post_url' = quiz_data.submit_url
    /\ \E d \in Durs : now' = now + d
    /\ Break("post")
    /\ UNCHANGED <<env, http_status, args, solver, current_url, quiz_count,
                   time_remaining, fetches, iter_downloads,
                   iter_llm_calls, close_calls>>

\* Mutant of is_correct: a verdict without "correct" counts as correct
is_correct_MissingIsTrue(res) == res.correct /= "false"

\* Lines 270, 272: the truth value of result.get("correct"), which is None
\* for a verdict without the key
is_correct(res) == res.correct = "true"

\* Line 274 / 280: next_url = result.get("url")
next_url(res) == dict_get(res.url)

\* Mutant of NextUrl: a correct answer ends the chain whatever the verdict offers
NextUrl_DropNext(res, remaining) ==
    IF is_correct(res)
    THEN NoneVal
    ELSE IF Truthy(next_url(res)) /\ remaining > SAFETY_MARGIN
         THEN next_url(res) ELSE NoneVal

\* Lines 270-294: the URL the loop goes on with (NoneVal: stop)
NextUrl(res, remaining) ==
    IF is_correct(res)
    THEN IF Truthy(next_url(res)) THEN next_url(res) ELSE NoneVal
    ELSE IF Truthy(next_url(res)) /\ remaining > SAFETY_MARGIN
         THEN next_url(res) ELSE NoneVal

\* Lines 270-294 for a JSON object.  The latest payload is not read again;
\* the model forgets it here.
Transition ==
    /\ pc = "transition"
    /\ result.isdict
    /\ current_url' = NextUrl(result, time_remaining)
    /\ status' = IF Truthy(NextUrl(result, time_remaining)) THEN status
                 ELSE IF is_correct(result) THEN "DONE" ELSE "FAILED"
    /\ payload' = NoPayload /\ post_url' = NoneVal
    /\ pc' = "loop"
    /\ UNCHANGED <<now, env, http_status, args, solver, quiz_count,
                   time_remaining, locals, error,
                   fetches, iter_downloads, iter_llm_calls, posts, close_calls>>

\* Lines 270, 303-305: result.get raises on a JSON value that is no
\* object; the outer handler reports it
TransitionFail ==
    /\ pc = "transition"
    /\ ~result.isdict
    /\ pc' = "cleanup"
    /\ status' = "FAILED"
    /\ error' = "verdict"
    /\ result' = NoResult /\ payload' = NoPayload /\ post_url' = NoneVal
    /\ UNCHANGED <<now, env, http_status, args, solver, current_url,
                   quiz_count, time_remaining, quiz_data, downloaded_data,
                   answer, fetches, iter_downloads, iter_llm_calls, posts,
                   close_calls>>

\* Lines 307-312, quiz_solver.py:40-51: close_browser closes the context,
\* the browser and the driver in this order; an exception of one close
\* skips the rest and is swallowed.  `done` is the number of steps passed.
\* Closing a context closes the pages opened in it.
Cleanup ==
    /\ pc = "cleanup"
    /\ \E done \in 0..3 :
         /\ done < 3 => <<context, browser, playwright>>[done + 1] /= "none"
         /\ context' = IF done >= 1 /\ context /= "none" THEN "closed" ELSE context
         /\ page' = IF done >= 1 /\ context /= "none" /\ page = "open"
                    THEN "closed" ELSE page
         /\ browser' = IF done >= 2 /\ browser /= "none" THEN "closed" ELSE browser
         /\ playwright' = IF done >= 3 /\ playwright /= "none" THEN "closed" ELSE playwright
    /\ close_calls' = close_calls + 1
    /\ pc' = "done"
    /\ UNCHANGED <<now, env, http_status, args, current_url, quiz_count,
                   time_remaining, locals, status, error, fetches,
                   iter_downloads, iter_llm_calls, sent>>

----------------------------------------------------------------------------
(* prompt_helper.py: _extract_answer called on its own *)

\* The tokens of a text: the marker as the code writes it and in lower
\* case, a blank, a line break and two words
Tokens == {"ANSWER:", "answer:", " ", "\n", "42", "x"}

RECURSIVE TextsOfLen(_)
TextsOfLen(n) ==
    IF n = 0 THEN {<< >>}
    ELSE {Append(t, tok) : t \in TextsOfLen(n - 1), tok \in Tokens}

\* The texts of up to MaxLen tokens
Texts == UNION {TextsOfLen(n) : n \in 0..MaxLen}

\* Before the call: any text
ExtractInit ==
    /\ now = StartClock
    /\ pc = "extract"
    /\ api_key = TRUE
    /\ full_response \in Texts
    /\ NoStandAloneCall
    /\ request = NoRequest
    /\ http_status = 0
    /\ email = "" /\ secret = "" /\ quiz_url = NoneVal /\ start_time = 0
    /\ playwright = "none" /\ browser = "none" /\ context = "none"
    /\ page = "none"
    /\ current_url = NoneVal /\ quiz_count = 0 /\ time_remaining = 0
    /\ quiz_data = NoPage /\ downloaded_data = {} /\ answer = NoneVal
    /\ result = NoResult
    /\ status = "NONE" /\ error = "none"
    /\ fetches = 0 /\ iter_downloads = 0 /\ iter_llm_calls = 0 /\ posts = 0
    /\ payload = NoPayload /\ post_url = NoneVal
    /\ close_calls = 0

\* answer = self._extract_answer(full_response)
Extract ==
    /\ pc = "extract"
    /\ answer' = extract_answer(full_response)
    /\ pc' = "extracted"
    /\ UNCHANGED <<now, env, http_status, args, solver, current_url,
                   quiz_count, time_remaining, quiz_data, downloaded_data,
                   result, status, error, fetches, iter_downloads,
                   iter_llm_calls, sent, close_calls>>

ExtractSpec == ExtractInit /\ [][Extract]_vars

----------------------------------------------------------------------------
(* main.py:196-201 and prompt_helper.py:42-48: one downloaded item on its  *)
(* way into the prompt.  A text is represented by what slicing depends on: *)
(* `body` characters of the downloaded content followed by `marker`        *)
(* characters of the truncation marker; `size` is the length of the        *)
(* content as downloaded and `isstr` tells a str from a parsed JSON value. *)

Min(a, b) == IF a <= b THEN a ELSE b

\* len(t)
Chars(t) == t.body + t.marker

\* t[:n]
Slice(t, n) ==
    [t EXCEPT !.body = Min(t.body, n),
              !.marker = Min(t.marker, IF n > t.body THEN n - t.body ELSE 0)]

\* t + "\n[...content truncated...]"
WithMarker(t) == [t EXCEPT !.marker = MARKER_LEN]

\* main.py:198-200
Truncate(t) ==
    IF t.isstr /\ Chars(t) > COLLECT_CAP
    THEN WithMarker(Slice(t, COLLECT_CAP))
    ELSE t

\* prompt_helper.py:47  str(data_content)[:3000]
Preview(t) == Slice(t, PROMPT_CAP)

\* A downloaded item that is not empty (line 196)
PromptInit ==
    /\ now = StartClock
    /\ pc = "downloaded"
    /\ api_key = TRUE
    /\ full_response = EmptyStr
    /\ \E n \in 1..MaxChars, str \in BOOLEAN :
         file_data = [size |-> n, isstr |-> str, body |-> n, marker |-> 0]
    /\ content_preview = NoData
    /\ anchors = << >> /\ question_text = << >> /\ chains = << >>
    /\ solvers = << >>
    /\ request = NoRequest
    /\ ChainIdle

\* main.py:198-201: the item is stored in downloaded_data
StoreItem ==
    /\ pc = "downloaded"
    /\ file_data' = Truncate(file_data)
    /\ pc' = "collected"
    /\ UNCHANGED <<now, api_key, full_response, content_preview, anchors,
                   question_text, chains, solvers, request, http_status, args, solver,
                   current_url, quiz_count, time_remaining, locals, status,
                   error, fetches, iter_downloads, iter_llm_calls, sent,
                   close_calls>>

\* prompt_helper.py:45-48: the item is written into data_section
EmbedItem ==
    /\ pc = "collected"
    /\ content_preview' = Preview(file_data)
    /\ pc' = "embedded"
    /\ UNCHANGED <<now, api_key, full_response, file_data, anchors,
                   question_text, chains, solvers, request, http_status, args, solver,
                   current_url, quiz_count, time_remaining, locals, status,
                   error, fetches, iter_downloads, iter_llm_calls, sent,
                   close_calls>>

PromptNext == StoreItem \/ EmbedItem

PromptSpec == PromptInit /\ [][PromptNext]_vars

----------------------------------------------------------------------------
(* quiz_solver.py:83-105, 204-229: the links and the submit URL of a page, *)
(* parsed on its own.  The page text is a sequence of items, each a word   *)
(* or a URL; the visible text of a link is a token sequence.               *)

\* <a> elements: with "/submit" and with "submit" as href, two data links
\* with the same visible text, a data link without visible text, an
\* element without href
Anchors ==
    { [href |-> <<"/submit">>, text |-> <<"Submit">>],
      [href |-> <<"submit">>, text |-> <<"Submit">>],
      [href |-> <<"http://x", "/a", ".csv">>, text |-> <<"data">>],
      [href |-> <<"/b", ".csv">>, text |-> <<" ", "data">>],
      [href |-> <<"/c", ".csv">>, text |-> <<" ">>],
      [href |-> NoneVal, text |-> <<"top">>] }

\* Words and URLs of a page text
TextItems ==
    { <<"see">>,
      <<"http://x", "/submit">>,
      <<"http://y", "/submit">>,
      <<"http://y", "/other">> }

RECURSIVE SeqsOfLen(_, _)
SeqsOfLen(S, n) ==
    IF n = 0 THEN {<< >>}
    ELSE {Append(t, x) : t \in SeqsOfLen(S, n - 1), x \in S}

\* The path of a relative reference, from the root of the site
Rooted(t) == IF t = "submit" THEN "/submit" ELSE t

\* urljoin(base, href) for a base whose path has one segment
urljoin(base, href) ==
    IF IsAbsolute(href) THEN href
    ELSE <<base[1]>> \o [i \in 1..Len(href) |-> IF i = 1 THEN Rooted(href[i]) ELSE href[i]]

\* link_urls[key] = url: a new key is added at the end, a known key keeps
\* its place and gets the new value
DictPut(d, key, url) ==
    IF \E i \in 1..Len(d) : d[i].text = key
    THEN [i \in 1..Len(d) |-> IF d[i].text = key THEN [d[i] EXCEPT !.url = url] ELSE d[i]]
    ELSE Append(d, [text |-> key, url |-> url])

\* Line 98: "/submit" in href.lower()
HasSlashSubmit(href) == \E i \in 1..Len(href) : Lower(href[i]) = "/submit"

\* Line 225: "submit" in url.lower()
HasSubmit(url) == \E i \in 1..Len(url) : Lower(url[i]) \in {"submit", "/submit"}

\* Lines 87-99: the loop over the <a> elements, from the first on
RECURSIVE ScanAnchors(_, _, _, _)
ScanAnchors(base, as, link_urls, submit_url) ==
    IF as = << >> THEN [links |-> link_urls, submit_url |-> submit_url]
    ELSE LET href == Head(as).href
             text == Strip(Head(as).text)
             full_url == urljoin(base, href)
         IN  IF ~Truthy(href)
             THEN ScanAnchors(base, Tail(as), link_urls, submit_url)
             ELSE ScanAnchors(base, Tail(as),
                      DictPut(link_urls, IF text /= << >> THEN text ELSE full_url, full_url),
                      IF HasSlashSubmit(href) /\ submit_url = NoneVal
                      THEN full_url ELSE submit_url)

\* Lines 217-218: re.findall(r'https?://...', text)
FindUrls(text) == SelectSeq(text, IsAbsolute)

\* QuizSolver.extract_submit_url
extract_submit_url(text) ==
    LET urls == FindUrls(text)
        hits == {i \in 1..Len(urls) : HasSubmit(urls[i])}
    IN  IF urls = << >> THEN NoneVal
        ELSE IF hits /= {}
        THEN urls[CHOOSE i \in hits : \A j \in hits : j <= i]
        ELSE urls[Len(urls)]

\* Lines 83-114: what visit_and_parse_quiz returns for a page
ParsePage(base, as, text) ==
    LET scan == ScanAnchors(base, as, << >>, NoneVal)
    IN  [question |-> text,
         links |-> scan.links,
         submit_url |-> IF scan.submit_url = NoneVal
                        THEN extract_submit_url(text)
                        ELSE scan.submit_url]

\* A page of up to MaxAnchors links and MaxItems words and URLs, fetched
\* from Q1
ParseInit ==
    /\ now = StartClock
    /\ pc = "parse"
    /\ api_key = TRUE
    /\ full_response = EmptyStr
    /\ file_data = NoData /\ content_preview = NoData
    /\ anchors \in UNION {SeqsOfLen(Anchors, n) : n \in 0..MaxAnchors}
    /\ question_text \in UNION {SeqsOfLen(TextItems, n) : n \in 0..MaxItems}
    /\ chains = << >> /\ solvers = << >>
    /\ request = NoRequest
    /\ ChainIdle

\* quiz_data = solver.visit_and_parse_quiz(current_url), lines 83-114
Parse ==
    /\ pc = "parse"
    /\ quiz_data' = ParsePage(Q1, anchors, question_text)
    /\ pc' = "parsed"
    /\ UNCHANGED <<now, env, http_status, args, solver, current_url,
                   quiz_count, time_remaining, downloaded_data, answer,
                   result, status, error, fetches, iter_downloads,
                   iter_llm_calls, sent, close_calls>>

ParseSpec == ParseInit /\ [][Parse]_vars

----------------------------------------------------------------------------
(* main.py:81-156, quiz_solver.py:13-51: two requests served concurrently. *)
(* Each accepted request starts solve_quiz_chain as a task of its own; the *)
(* steps of the two tasks interleave.  A chain is a record of its          *)
(* arguments and locals; `solvers` holds the browser of each QuizSolver    *)
(* instance ("none", "open", "closed").  What the collaborators answer in  *)
(* the i-th iteration of a chain is the i-th entry of its script: "late"   *)
(* (the clock has passed the deadline at the loop test), "fetchfail",      *)
(* "fatal" (a failure after the fetch), "next" (a verdict with a next      *)
(* URL) or "done" (a correct verdict without one).                         *)

Chains == {1, 2}
Responses == {"late", "fetchfail", "fatal", "next", "done"}
Scripts == SeqsOfLen(Responses, MaxIter)

\* Mutant of solver_of: one QuizSolver shared by all chains
solver_of_Shared(c) == 1

\* main.py:149  solver = QuizSolver(): an instance of its own for each call
solver_of(c) == c

\* The request that starts chain c
UrlOf(c) == IF c = 1 THEN Q1 ELSE P2

IdleChain(script) ==
    [pc |-> "idle", quiz_url |-> NoneVal, start_time |-> 0, solver |-> 0,
     current_url |-> NoneVal, quiz_count |-> 0, status |-> "NONE",
     script |-> script]

\* The response to iteration i of a chain; past its script the clock has
\* passed the deadline
ResponseAt(ch, i) == IF i <= Len(ch.script) THEN ch.script[i] ELSE "late"

\* One step of solve_quiz_chain for chain c in state ch, with the browser
\* of its QuizSolver in state sv: the next state of both
StepOf(c, ch, sv) ==
    CASE ch.pc = "start" ->
           \* lines 149-152
           [ch |-> [ch EXCEPT !.pc = "loop", !.solver = solver_of(c),
                              !.current_url = ch.quiz_url, !.quiz_count = 0,
                              !.status = "RUNNING"],
            sv |-> sv]
      [] ch.pc = "loop" ->
           \* lines 156-157, 296-301
           IF Truthy(ch.current_url) /\ ResponseAt(ch, ch.quiz_count + 1) /= "late"
           THEN [ch |-> [ch EXCEPT !.pc = "fetch", !.quiz_count = @ + 1], sv |-> sv]
           ELSE [ch |-> [ch EXCEPT !.pc = "cleanup",
                                   !.status = IF Truthy(ch.current_url)
                                              THEN "TIMED_OUT" ELSE @],
                 sv |-> sv]
      [] ch.pc = "fetch" ->
           \* lines 169-180, quiz_solver.py:63-68: the browser is started
           \* when the solver has none; a page cannot be opened in a
           \* browser that was closed
           IF sv = "closed" \/ ResponseAt(ch, ch.quiz_count) = "fetchfail"
           THEN [ch |-> [ch EXCEPT !.pc = "cleanup", !.status = "FAILED"],
                 sv |-> IF sv = "none" THEN "open" ELSE sv]
           ELSE [ch |-> [ch EXCEPT !.pc = "work"], sv |-> "open"]
      [] ch.pc = "work" ->
           \* lines 184-294
           CASE ResponseAt(ch, ch.quiz_count) = "next" ->
                  [ch |-> [ch EXCEPT !.pc = "loop", !.current_url = Q2], sv |-> sv]
             [] ResponseAt(ch, ch.quiz_count) = "done" ->
                  [ch |-> [ch EXCEPT !.pc = "loop", !.current_url = NoneVal,
                                     !.status = "DONE"],
                   sv |-> sv]
             [] OTHER ->
                  [ch |-> [ch EXCEPT !.pc = "cleanup", !.status = "FAILED"], sv |-> sv]
      [] OTHER ->
           \* lines 307-312, quiz_solver.py:40-51
           [ch |-> [ch EXCEPT !.pc = "done"],
            sv |-> IF sv = "open" THEN "closed" ELSE sv]

\* The variables of the single chain
single == <<pc, api_key, full_response, file_data, content_preview, anchors,
            question_text, request, http_status, args, solver, current_url,
            quiz_count, time_remaining, locals, status, error, fetches,
            iter_downloads, iter_llm_calls, sent, close_calls>>

\* Two requests are to come; each chain has its script
PairInit ==
    /\ now = StartClock
    /\ pc = "pair"
    /\ api_key = TRUE
    /\ full_response = EmptyStr
    /\ file_data = NoData /\ content_preview = NoData
    /\ anchors = << >> /\ question_text = << >>
    /\ chains \in [Chains -> {IdleChain(script) : script \in Scripts}]
    /\ solvers = [i \in Chains |-> "none"]
    /\ request = NoRequest
    /\ ChainIdle

\* main.py:81-129: the request of chain c is accepted and its task added
PairTrigger(c) ==
    /\ chains[c].pc = "idle"
    /\ chains' = [chains EXCEPT ![c].pc = "start", ![c].quiz_url = UrlOf(c),
                                ![c].start_time = now]
    /\ now' = now + 1
    /\ UNCHANGED <<solvers, single>>

\* One step of the task of chain c
PairStep(c) ==
    /\ chains[c].pc \notin {"idle", "done"}
    /\ LET id == IF chains[c].pc = "start" THEN solver_of(c) ELSE chains[c].solver
           r == StepOf(c, chains[c], solvers[id])
       IN  /\ chains' = [chains EXCEPT ![c] = r.ch]
           /\ solvers' = [solvers EXCEPT ![id] = r.sv]
    /\ UNCHANGED <<now, single>>

PairNext == \E c \in Chains : PairTrigger(c) \/ PairStep(c)

PairSpec == PairInit /\ [][PairNext]_vars

\* solve_quiz_chain run alone, to its end
RECURSIVE SoloRun(_, _, _)
SoloRun(c, ch, sv) ==
    IF ch.pc = "done" THEN [ch |-> ch, sv |-> sv]
    ELSE LET r == StepOf(c, ch, sv)
         IN  SoloRun(c, r.ch, r.sv)

----------------------------------------------------------------------------
\* The steps of the background task
ChainStep ==
    \/ Construct
    \/ LoopEnter
    \/ LoopExit
    \/ VisitOk
    \/ VisitFail
    \/ Collect
    \/ FixedAnswer
    \/ FirstSolveOk
    \/ FirstSolveFail
    \/ SecondSolveOk
    \/ SecondSolveFail
    \/ NoSubmitUrl
    \/ PostOk
    \/ PostFail
    \/ Transition
    \/ TransitionFail
    \/ Cleanup

Next == receive_quiz \/ ChainStep

Spec == Init /\ [][Next]_vars

\* The background task is one thread whose calls all return
FairSpec == Spec /\ WF_vars(ChainStep)

----------------------------------------------------------------------------
(* Properties *)

\* The deadline of the chain: line 156 reads now - start_time < QUIZ_TIMEOUT
Deadline == start_time + QUIZ_TIMEOUT

Final == {"DONE", "FAILED", "TIMED_OUT"}
LoopExited == pc \in {"cleanup", "done"}

\* The iteration cap of the model is never what stops a chain
IterationsBounded == quiz_count < MaxSteps

\* C1: under FairSpec (every call of the background task returns, and a
\* fetched page costs FETCH_WAIT seconds or more), a running chain always
\* leaves its loop with one of the outcomes DONE, FAILED, TIMED_OUT, also
\* when every verdict offers a next URL.  What ends such a chain is the
\* budget: an iteration begins only with time left, each one with at least
\* FETCH_WAIT seconds less than the one before, so the number of iterations
\* stays below MaxSteps.
C1_LoopTerminates ==
    /\ []IterationsBounded
    /\ [][quiz_count' /= quiz_count
            => /\ time_remaining' > 0
               /\ quiz_count >= 1 => time_remaining' <= time_remaining - FETCH_WAIT]_vars
    /\ (status = "RUNNING") ~> (LoopExited /\ status \in Final)

\* A chain that was offered a next URL by every verdict and ran out of time
C1_Witness ==
    /\ pc = "done" /\ status = "TIMED_OUT"
    /\ quiz_count >= 3 /\ posts = quiz_count

\* C2: once the chain exists its start time, hence its deadline, never
\* changes, and every step that begins an iteration or a page fetch is taken
\* at a clock reading strictly before the deadline.
C2_DeadlineFixed ==
    [][ /\ (pc /= "idle" => start_time' = start_time /\ Deadline' = Deadline)
        /\ (quiz_count' /= quiz_count => now < Deadline)
        /\ (fetches' /= fetches => now < Deadline) ]_vars

\* An iteration that began in the last two seconds before the deadline
C2_Witness == pc = "fetch" /\ quiz_count >= 2 /\ Deadline - now <= 2

\* C3 as stated: a chain that is DONE or FAILED ended strictly before the
\* deadline, and one that is TIMED_OUT ended at or after it.
C3_EndsBeforeDeadline ==
    /\ (status \in {"DONE", "FAILED"} => now < Deadline)
    /\ (status = "TIMED_OUT" => now >= Deadline)

\* C3 amended: a chain that is DONE or FAILED ended in an iteration that
\* began strictly before the deadline (the end itself may come later, by the
\* duration of that iteration's calls), and one that is TIMED_OUT ended at
\* or after the deadline.
C3_LastIterationBeganBeforeDeadline ==
    /\ (status \in {"DONE", "FAILED"} => time_remaining > 0)
    /\ (status = "TIMED_OUT" => now >= Deadline)

\* A chain that ended as DONE after its deadline
C3_Witness == pc = "done" /\ status = "DONE" /\ now >= Deadline

\* C4: no step is retried: when the transition leaves the loop condition
\* true, so that the next iteration starts, the URL of that iteration
\* differs from the URL of the iteration just completed.
C4_NeverSameUrl ==
    [][ (pc = "transition" /\ pc' = "loop" /\ LoopCond(current_url', now', start_time))
            => current_url' /= current_url ]_vars

\* C5: after a correct verdict with a next URL, current_url becomes that URL
\* and control returns to the loop check with the chain still running; after
\* a correct verdict without one the chain is DONE in that step, and a DONE
\* chain makes no further fetch, download, backend call or submission.
C5_CorrectVerdict ==
    [][ /\ (pc = "transition" /\ result.isdict /\ result.correct = "true")
             => IF Truthy(next_url(result))
                THEN current_url' = next_url(result) /\ pc' = "loop" /\ status' = "RUNNING"
                ELSE status' = "DONE" /\ quiz_count' = quiz_count
        /\ status = "DONE"
             => /\ fetches' = fetches /\ posts' = posts
                /\ iter_llm_calls' = iter_llm_calls
                /\ iter_downloads' = iter_downloads
                /\ status' = "DONE" ]_vars

\* A chain that followed a next URL and was then DONE
C5_Witness == pc = "done" /\ status = "DONE" /\ quiz_count >= 2 /\ posts = quiz_count

\* C6: after a verdict that is not correct, the chain goes on with the
\* verdict's URL exactly when there is one and the time left until the
\* deadline at that moment exceeds SAFETY_MARGIN; otherwise it is FAILED.
C6_MarginAtVerdict ==
    [][ (pc = "transition" /\ result.isdict /\ result.correct /= "true")
            => IF Truthy(next_url(result)) /\ Deadline - now > SAFETY_MARGIN
               THEN current_url' = next_url(result) /\ status' = "RUNNING"
               ELSE status' = "FAILED" /\ ~Truthy(current_url') ]_vars

\* C7: current_url, whenever it holds a URL, holds an absolute one.
C7_CurrentUrlAbsolute == Truthy(current_url) => IsAbsolute(current_url)

\* C8: the answer of a POSTed payload is never empty.
C8_AnswerNotEmpty == payload /= NoPayload => Truthy(payload.answer)

\* C9: the step in which a fatal error occurs makes the chain FAILED and
\* leaves the loop for the cleanup, and from then on the chain makes no
\* fetch, download, backend call or submission.
C9_FatalErrorEndsChain ==
    [][ /\ (error = "none" /\ error' /= "none")
             => status' = "FAILED" /\ pc' = "cleanup"
        /\ error /= "none"
             => /\ fetches' = fetches /\ posts' = posts
                /\ iter_llm_calls' = iter_llm_calls
                /\ iter_downloads' = iter_downloads
                /\ status' = "FAILED" /\ pc' \in {"cleanup", "done"} ]_vars

\* A chain ended by a failing backend call in its second iteration or later
C9_Witness == pc = "done" /\ error = "llm" /\ quiz_count >= 2

\* C10: a chain whose first page fetch failed ends with quiz_count = 1,
\* FAILED, and close_browser called exactly once.
C10_FirstFetchFails ==
    (pc = "done" /\ error = "fetch" /\ fetches = 1)
        => quiz_count = 1 /\ status = "FAILED" /\ close_calls = 1

\* A chain that ended after its first page fetch failed
C10_Witness == pc = "done" /\ error = "fetch" /\ fetches = 1

\* C11: when solve_quiz_chain has returned, nothing the chain acquired is
\* still open: not the playwright driver, the browser or the context, and
\* no page opened by visit_and_parse_quiz.
C11_AllReleased ==
    pc \in {"done", "crashed"}
        => \A r \in {playwright, browser, context, page} : r /= "open"

\* C12: no exception leaves solve_quiz_chain: the task never ends in
\* another way than through its cleanup.
C12_NoExceptionEscapes == pc /= "crashed"

\* The data links of the page being processed, as line 188 selects them
DataLinksOfPage ==
    {i \in 1..Len(quiz_data.links) : IsDataLink(quiz_data.links[i].url)}

\* C13: the collecting step never ends the chain: whatever downloads or
\* decodings fail, download_file is called for every data link of the page,
\* the collected keys are texts of data links of the page, the chain is not
\* FAILED by the step and the iteration goes on to the reasoning step.
C13_DownloadFailuresNotFatal ==
    [][ pc = "collect"
          => /\ pc' = "llm1"
             /\ status' = status /\ error' = error
             /\ iter_downloads' = Cardinality(DataLinksOfPage)
             /\ downloaded_data'
                  \subseteq {quiz_data.links[i].text : i \in DataLinksOfPage} ]_vars

\* A page with two data links of which one failed: both were tried, the
\* other one was collected and the reasoning step is next
C13_Witness ==
    /\ pc = "llm1" /\ status = "RUNNING"
    /\ iter_downloads = 2 /\ Cardinality(downloaded_data) = 1

\* C14: the step that finds the fetched page without a submit URL makes
\* the chain FAILED and leaves the loop without a POST, so the chain ends
\* with one POST for each earlier iteration and none for this one.
C14_NoSubmitUrlFails ==
    [][ /\ (pc = "submit" /\ ~Truthy(quiz_data.submit_url))
             => status' = "FAILED" /\ pc' = "cleanup" /\ posts' = posts
        /\ error' = "nosubmit"
             => status' = "FAILED" /\ posts' = quiz_count' - 1 ]_vars

\* A chain that ended in its second iteration or later on a page without
\* a submit URL
C14_Witness ==
    /\ pc = "done" /\ error = "nosubmit"
    /\ quiz_count >= 2 /\ posts = quiz_count - 1

\* The part of an iteration between the page fetch and the submission
InIteration == pc \in {"fetch", "collect", "llm1", "llm2", "submit"}

\* C15: the email and the secret of a chain never change and current_url
\* does not change within an iteration; every POST is made from the submit
\* step of an iteration whose page was fetched and whose answer was
\* obtained in that iteration, goes to the submit URL of that page, and
\* carries the chain's email and secret (the accepted request's values),
\* current_url and that answer.
C15_SubmissionPayload ==
    [][ /\ (pc /= "idle" => email' = email /\ secret' = secret)
        /\ (InIteration /\ pc' /= "loop" => current_url' = current_url)
        /\ posts' /= posts
             => /\ pc = "submit" /\ posts' = posts + 1
                /\ quiz_data /= NoPage /\ Truthy(quiz_data.submit_url)
                /\ post_url' = quiz_data.submit_url
                /\ iter_llm_calls >= 1 /\ answer /= NoneVal
                /\ payload' = [email |-> MY_EMAIL, secret |-> REGISTERED_SECRET,
                               url |-> current_url, answer |-> answer]
                /\ payload'.email = email /\ payload'.secret = secret ]_vars

\* A POST of a later iteration: the reported URL is not the one the chain
\* started with and the submit URL is the one of the page just fetched
C15_Witness ==
    /\ pc = "transition" /\ quiz_count >= 2
    /\ payload.url /= quiz_url /\ post_url = SubmitUrl2
    /\ Truthy(payload.answer)

\* A verdict with "correct": false in place of a missing "correct" and
\* "url": null in place of a missing "url"
WithDefaults(res) ==
    [res EXCEPT !.correct = IF @ = "missing" THEN "false" ELSE @,
                !.url = IF @ = MissingVal THEN NoneVal ELSE @]

\* C16: the transition made on a verdict is the one made on the same
\* verdict with "correct": false in place of a missing "correct" and
\* "url": null in place of a missing "url": same next URL, same outcome.
C16_MissingFieldsAsDefaults ==
    [][ (pc = "transition" /\ result.isdict)
          => LET res == WithDefaults(result)
                 url == NextUrl(res, time_remaining)
             IN  /\ current_url' = url
                 /\ status' = IF Truthy(url) THEN status
                              ELSE IF res.correct = "true" THEN "DONE" ELSE "FAILED"
                 /\ pc' = "loop" ]_vars

\* The transition made on a verdict with neither "correct" nor "url": the
\* chain is FAILED and has no next URL
C16_Witness ==
    /\ pc = "loop" /\ result.isdict
    /\ result.correct = "missing" /\ result.url = MissingVal
    /\ status = "FAILED" /\ current_url = NoneVal


\* The query string of a URL starts at a token with "?"
IsQuery(t) == t \in {"?f=a"}

\* The last token of the path of a URL: what precedes the query string
RECURSIVE PathEnd(_)
PathEnd(u) ==
    IF u = << >> THEN ""
    ELSE IF \E i \in 1..Len(u) : IsQuery(u[i])
         THEN PathEnd(SubSeq(u, 1, Len(u) - 1))
         ELSE u[Len(u)]

\* The resource named by the URL has the extension of a data file
HasDataExtension(u) == Lower(PathEnd(u)) \in DataExtensions

\* C20: the collecting step calls download_file for the links of the page
\* whose resource has a data extension and for no other link, and the
\* collected keys are texts of such links.
C20_OnlyDataExtensions ==
    [][ pc = "collect"
          => LET links == quiz_data.links
                 data == {i \in 1..Len(links) : HasDataExtension(links[i].url)}
             IN  /\ iter_downloads' = Cardinality(data)
                 /\ downloaded_data' \subseteq {links[i].text : i \in data} ]_vars



\* C23: the answer to a request is 400 for a body that is no QuizRequest,
\* 403 when its secret or its email is not the configured one and 200
\* otherwise; the chain is started exactly with the answer 200, with the
\* email, the secret and the url of the request, and a rejected request
\* starts nothing: no fetch and no POST ever follows it.
C23_Endpoint ==
    [][ /\ (pc = "idle" /\ pc' /= "idle")
             => /\ http_status' =
                      IF request'.malformed THEN 400
                      ELSE IF request'.secret /= REGISTERED_SECRET
                              \/ request'.email /= MY_EMAIL THEN 403
                      ELSE 200
                /\ pc' = IF http_status' = 200 THEN "start" ELSE "rejected"
                /\ IF http_status' = 200
                   THEN /\ email' = request'.email /\ secret' = request'.secret
                        /\ quiz_url' = request'.url
                   ELSE status' = "NONE" /\ quiz_url' = NoneVal
        /\ pc = "rejected"
             => pc' = "rejected" /\ fetches' = fetches /\ posts' = posts
        /\ (pc' \notin {"idle", "rejected"} => http_status' = 200) ]_vars

\* A request with the right secret and another email, answered 403
C23_Witness ==
    /\ pc = "rejected" /\ http_status = 403
    /\ ~request.malformed
    /\ request.secret = REGISTERED_SECRET /\ request.email /= MY_EMAIL

\* C25: an iteration that has reached the submit step has called the
\* reasoning backend exactly once.
C25_OneBackendCall == pc = "submit" => iter_llm_calls = 1

\* C26: in the first iteration of a chain started on a URL containing
\* "/project2" the answer of the POST is "start" and a failing backend
\* does not end the chain.
C26_EntryAnswerIsStart ==
    (quiz_count = 1 /\ Contains(quiz_url, "/project2"))
        => /\ error /= "llm"
           /\ payload /= NoPayload => payload.answer = <<"start">>

\* The longest external call of the model: a slow page fetch
OneCallMax == FETCH_WAIT + MaxDur

\* The most the calls of one iteration take together: the fetch, the
\* downloads, two backend calls and the POST
IterationMax == (FETCH_WAIT + MaxDur) + MaxDur + 2 * MaxDur + MaxDur

\* C27 as stated: a chain has left its loop no later than the longest
\* single call after its deadline.
C27_OverrunOneCall == LoopExited => now - Deadline <= OneCallMax

\* C27 amended: a chain has left its loop less than the accumulated
\* duration of the calls of one iteration after its deadline.
C27_OverrunOneIteration == LoopExited => now - Deadline < IterationMax

\* A chain that ended later than two of the longest calls after its deadline
C27_Witness == pc = "done" /\ now - Deadline > 2 * OneCallMax

\* The fetches attempted: those that have returned or raised, and the one
\* the chain is in
FetchesAttempted == fetches + (IF pc = "fetch" THEN 1 ELSE 0)

\* C29: quiz_count is the number of fetches attempted and is never below
\* the number of POSTs; a POST is the first of its iteration and is made
\* from the submit step, after the page of that iteration was fetched, a
\* backend call of that iteration returned and a submit URL was found.
C29_StepCount ==
    [][ /\ quiz_count' = FetchesAttempted'
        /\ posts' <= quiz_count'
        /\ posts' /= posts
             => /\ posts' = posts + 1 /\ posts = quiz_count - 1
                /\ pc = "submit" /\ fetches = quiz_count
                /\ quiz_data /= NoPage /\ Truthy(quiz_data.submit_url)
                /\ iter_llm_calls >= 1 /\ answer /= NoneVal ]_vars

\* A chain of three iterations whose third fetch failed: three steps
\* counted, three fetches attempted, two POSTs
C29_Witness ==
    /\ pc = "done" /\ error = "fetch"
    /\ quiz_count = 3 /\ fetches = 3 /\ posts = 2


----------------------------------------------------------------------------
(* Properties of two concurrent chains, under PairSpec *)

\* Chain c run alone from its request: same URL, same start time, same
\* script, a QuizSolver of its own
Alone(c) ==
    SoloRun(c, [IdleChain(chains[c].script) EXCEPT
                   !.pc = "start", !.quiz_url = chains[c].quiz_url,
                   !.start_time = chains[c].start_time],
            "none")

\* C24: a chain that has ended among the steps of another one has the
\* current_url, quiz_count, start time (hence deadline), status and
\* browser state it has when run alone on the same responses; and a step
\* of one chain, its cleanup included, changes neither the other chain nor
\* the browser of the other chain's QuizSolver.
C24_ChainsIndependent ==
    /\ [](\A c \in Chains :
            chains[c].pc = "done"
                => /\ chains[c] = Alone(c).ch
                   /\ solvers[chains[c].solver] = Alone(c).sv)
    /\ [][\A c \in Chains, d \in Chains :
            (c /= d /\ chains'[c] /= chains[c])
                => /\ chains'[d] = chains[d]
                   /\ chains[d].solver /= 0
                        => solvers'[chains[d].solver] = solvers[chains[d].solver]]_vars

\* One chain has ended and closed its browser while the other is in the
\* middle of its second iteration with its browser open
C24_Witness ==
    /\ chains[1].pc = "done" /\ solvers[chains[1].solver] = "closed"
    /\ chains[2].pc = "work" /\ chains[2].quiz_count = 2
    /\ solvers[chains[2].solver] = "open"

----------------------------------------------------------------------------
(* Properties of the parsing of a page, under ParseSpec *)

\* The <a> elements with an href, by position
WithHref == {i \in 1..Len(anchors) : Truthy(anchors[i].href)}

\* The hyperlinks whose path contains "submit"
SubmitLinks == {i \in WithHref : HasSubmit(anchors[i].href)}

\* The positions of the absolute URLs of the page text, and of those
\* containing "submit"
TextUrls == {i \in 1..Len(question_text) : IsAbsolute(question_text[i])}
TextSubmitUrls == {i \in TextUrls : HasSubmit(question_text[i])}

Latest(S) == CHOOSE i \in S : \A j \in S : j <= i

\* C22: the submit URL of a parsed page is the URL of a hyperlink whose
\* path contains "submit" when there is one; else the latest absolute URL
\* of the text that contains "submit"; else the last absolute URL of the
\* text; else none.
C22_SubmitUrlPriority ==
    pc = "parsed"
        => IF SubmitLinks /= {}
           THEN \E i \in SubmitLinks :
                    quiz_data.submit_url = urljoin(Q1, anchors[i].href)
           ELSE IF TextSubmitUrls /= {}
           THEN quiz_data.submit_url = question_text[Latest(TextSubmitUrls)]
           ELSE IF TextUrls /= {}
           THEN quiz_data.submit_url = question_text[Latest(TextUrls)]
           ELSE quiz_data.submit_url = NoneVal

\* C28: every <a> element with an href has an entry in the link map of
\* the parsed page, with its absolute URL as the value and its visible
\* text, or that URL when the text is blank, as the key.
C28_NoLinkLost ==
    pc = "parsed"
        => \A i \in WithHref :
             LET url == urljoin(Q1, anchors[i].href)
                 text == Strip(anchors[i].text)
             IN  \E j \in 1..Len(quiz_data.links) :
                    /\ quiz_data.links[j].url = url
                    /\ quiz_data.links[j].text = IF text /= << >> THEN text ELSE url

----------------------------------------------------------------------------
(* Properties of the answer extraction, under ExtractSpec *)

\* The positions of the marker "ANSWER:" in a text
MarkerAt(s) == {i \in 1..Len(s) : s[i] = "ANSWER:"}

\* The position of the first line break after position i, or the position
\* after the end of the text
LineEnd(s, i) ==
    IF \E j \in (i + 1)..Len(s) : s[j] = "\n"
    THEN CHOOSE j \in (i + 1)..Len(s) :
             s[j] = "\n" /\ \A k \in (i + 1)..(j - 1) : s[k] /= "\n"
    ELSE Len(s) + 1

\* The text between the marker at position i and the next line break, trimmed
AfterMarker(s, i) == Strip(SubSeq(s, i + 1, LineEnd(s, i) - 1))

\* C17: for a text that contains "ANSWER:", the extracted answer is the
\* text between a marker and the first line break after that marker,
\* trimmed; nothing of it comes from a later line.
C17_TextAfterMarker ==
    (pc = "extracted" /\ MarkerAt(full_response) /= {})
        => \E i \in MarkerAt(full_response) :
               answer = AfterMarker(full_response, i)

\* A text with the marker written in upper case wherever it is written in
\* lower case
UpperMarker(s) == [i \in 1..Len(s) |-> IF s[i] = "answer:" THEN "ANSWER:" ELSE s[i]]

\* C18: the answer extracted from a text is the one extracted from the
\* same text with its markers written "ANSWER:".
C18_MarkerAnyCase ==
    pc = "extracted" => answer = extract_answer(UpperMarker(full_response))

\* The positions of a text that hold neither a blank nor a line break
Solid(s) == {i \in 1..Len(s) : ~IsWs(s[i])}

\* C19: for a text without the marker in any case, the extracted answer is
\* the empty string when the text holds nothing but blanks and line
\* breaks; otherwise it is the line of the last such token, from the first
\* to the last token of that line that is no blank.
C19_LastNonBlankLine ==
    (pc = "extracted" /\ MarkerAt(UpperMarker(full_response)) = {})
        => LET s == full_response
           IN  IF Solid(s) = {}
               THEN answer = EmptyStr
               ELSE LET last == CHOOSE i \in Solid(s) : \A j \in Solid(s) : j <= i
                        first == CHOOSE i \in Solid(s) :
                                   /\ \A k \in i..last : s[k] /= "\n"
                                   /\ \A j \in Solid(s) :
                                        (\A k \in j..last : s[k] /= "\n") => i <= j
                    IN  answer = SubSeq(s, first, last)

\* Two lines and a trailing line break: the second line is the answer
C19_Witness ==
    /\ pc = "extracted"
    /\ full_response = <<"x", "\n", "42", "\n">>
    /\ answer = <<"42">>

----------------------------------------------------------------------------
(* Properties of the embedding of a downloaded item, under PromptSpec *)

\* C21: an item of which the prompt holds less than was downloaded is
\* followed in the prompt by the whole truncation marker; any other item
\* is in the prompt whole and without any part of the marker.
C21_CutItemsMarked ==
    pc = "embedded"
        => IF content_preview.body < file_data.size
           THEN content_preview.marker = MARKER_LEN
           ELSE content_preview.body = file_data.size /\ content_preview.marker = 0

====
